---------------------------- MODULE Spec2Model ----------------------------
(***************************************************************************)
(* Model of TilePlugin::HandleRequest (src/engine/plugins/tile.cpp): one   *)
(* tile request as a state machine.  The facade (graph, geometries,        *)
(* shortcuts, coordinates) is read-only input data; the request tallies    *)
(* the attribute values of every edge in the box, then writes the "speeds" *)
(* layer and the "turns" layer of the vector tile.                         *)
(***************************************************************************)
EXTENDS Integers, Sequences, FiniteSets, TLC

VARIABLES
    linestring,         \* a call of encodeLinestring on its own: the line, the
                        \* cursor start_x/start_y (start: its value at the
                        \* call), the geometry field, the result
    parameters,         \* api::TileParameters of the request: x, y, z
    edges,              \* result of facade.GetEdgesInBox (a sequence of edges)
    pc,                 \* position in HandleRequest
    i,                  \* number of edges the current loop has processed
    used_line_ints,     \* std::vector<int>
    line_int_offsets,   \* std::unordered_map<int, std::size_t>
    max_datasource_id,  \* uint8_t
    used_point_ints,    \* std::vector<int>
    point_int_offsets,  \* std::unordered_map<int, std::size_t>
    all_turn_data,      \* std::vector<std::vector<TurnData>>
    layers,             \* the layer messages written to pbf_buffer so far
    id,                 \* feature id counter of the layer being written
    status              \* "running", "Ok" (the returned Status) or "crashed"
                        \* (the process died before returning)

vars == <<linestring, parameters, edges, pc, i, used_line_ints, line_int_offsets,
          max_datasource_id, used_point_ints, point_int_offsets, all_turn_data,
          layers, id, status>>

-----------------------------------------------------------------------------
(* Bounds of the model *)

\* the longest edge list the facade returns
MaxEdges == 2

\* the longest line handed to encodeLinestring on its own
MaxLine == 3

-----------------------------------------------------------------------------
(* Program constants *)

\* the sentinel of an absent geometry id, std::numeric_limits<unsigned>::max(),
\* written as the signed value of its bit pattern
SPECIAL_EDGEID == -1

EXTENT == 4096

\* util::vector_tile::BUFFER, the margin of the clip box
BUFFER == 128

\* the speed values 0..127 written to the "speeds" layer
SpeedValues == 128

\* index of the first datasource name in the "speeds" values
DatasourceBase == 130

-----------------------------------------------------------------------------
(* Arithmetic helpers *)

Abs(n) == IF n < 0 THEN -n ELSE n

Max(a, b) == IF a >= b THEN a ELSE b

Min(a, b) == IF a <= b THEN a ELSE b

\* std::round of the rational n/d (d > 0): to nearest, halves away from zero
RoundDiv(n, d) ==
    IF n >= 0 THEN (2 * n + d) \div (2 * d)
    ELSE -((2 * (-n) + d) \div (2 * d))

\* conversion of the rational n/d (d > 0) to an integer: truncation toward zero
TruncDiv(n, d) ==
    IF n >= 0 THEN n \div d ELSE -((-n) \div d)

RECURSIVE SumSeq(_)
SumSeq(s) == IF s = <<>> THEN 0 ELSE Head(s) + SumSeq(Tail(s))

\* the sequences over S of length at most n
BoundedSeq(S, n) == UNION {[1..k -> S] : k \in 0..n}

\* the elements of a sequence
Range(seq) == {seq[k] : k \in 1..Len(seq)}

\* the orders in which a set can be enumerated
Perms(S) ==
    {p \in [1..Cardinality(S) -> S] : \A a, b \in 1..Cardinality(S) : p[a] = p[b] => a = b}

-----------------------------------------------------------------------------
(* The facade: the read-only data set the request reads.  Node coordinates *)
(* are Web-Mercator pixel coordinates (lon * DEGREE_TO_PX, latToY(lat) *   *)
(* DEGREE_TO_PX), the quantities coordinatesToTileLine projects.           *)

\* facade.GetCoordinateOfNode, by node id
coordinate_list ==
    <<[x |-> 1000,  y |-> 6000],    \* 1: inside the tile
      [x |-> 3000,  y |-> 6000],    \* 2: inside
      [x |-> 3000,  y |-> 4192],    \* 3: inside, an intersection
      [x |-> 999,   y |-> 6000],    \* 4: projects to the pixel of node 1
      [x |-> -2000, y |-> 7992],    \* 5: left of the clip box
      [x |-> -2000, y |-> 2192],    \* 6: left of the clip box
      [x |-> -256,  y |-> 6000],    \* 7: projects onto the clip box's border
      [x |-> 5000,  y |-> 4192],    \* 8: inside
      [x |-> 3000,  y |-> 2192]>>   \* 9: inside

GetCoordinateOfNode(n) == coordinate_list[n]

\* the packed geometries: per geometry id the node ids, weights (deciseconds)
\* and datasource ids of its segments
geometry_list ==
    0  :> [nodes |-> <<2, 3>>, weights |-> <<10, 20>>, datasources |-> <<0, 1>>] @@
    1  :> [nodes |-> <<2, 1>>, weights |-> <<25, 10>>, datasources |-> <<2, 0>>] @@
    2  :> [nodes |-> <<4>>,    weights |-> <<30>>,     datasources |-> <<0>>] @@
    3  :> [nodes |-> <<1>>,    weights |-> <<0>>,      datasources |-> <<1>>] @@
    4  :> [nodes |-> <<6>>,    weights |-> <<10>>,     datasources |-> <<3>>] @@
    5  :> [nodes |-> <<7>>,    weights |-> <<40>>,     datasources |-> <<0>>] @@
    6  :> [nodes |-> <<2>>,    weights |-> <<5>>,      datasources |-> <<0>>] @@
    7  :> [nodes |-> <<5>>,    weights |-> <<20>>,     datasources |-> <<1>>] @@
    8  :> [nodes |-> <<1>>,    weights |-> <<50>>,     datasources |-> <<0>>] @@
    9  :> [nodes |-> <<3>>,    weights |-> <<15>>,     datasources |-> <<2>>] @@
    10 :> [nodes |-> <<8, 9>>, weights |-> <<7, 7>>,   datasources |-> <<0, 0>>] @@
    11 :> [nodes |-> <<8>>,    weights |-> <<9>>,      datasources |-> <<0>>] @@
    12 :> [nodes |-> <<9>>,    weights |-> <<11>>,     datasources |-> <<0>>] @@
    13 :> [nodes |-> <<1>>,    weights |-> <<11>>,     datasources |-> <<0>>]

GetUncompressedWeights(g) == geometry_list[g].weights

GetUncompressedDatasources(g) == geometry_list[g].datasources

GetUncompressedGeometry(g) == geometry_list[g].nodes

datasource_names == <<"lua profile", "a.csv", "b.csv", "c.csv">>

\* facade.GetDatasourceName(n), n counted from 0
GetDatasourceName(n) ==
    IF n < Len(datasource_names) THEN datasource_names[n + 1] ELSE ""

\* the shortcuts of the contracted graph: forward flag and target node
shortcut_list ==
    0 :> [forward |-> TRUE,  target |-> 10] @@
    1 :> [forward |-> TRUE,  target |-> 11] @@
    2 :> [forward |-> FALSE, target |-> 12] @@
    3 :> [forward |-> TRUE,  target |-> 13] @@
    4 :> [forward |-> TRUE,  target |-> 14] @@
    5 :> [forward |-> FALSE, target |-> 15] @@
    6 :> [forward |-> TRUE,  target |-> 16] @@
    7 :> [forward |-> TRUE,  target |-> 17]

\* facade.GetAdjacentEdgeRange, by edge-based node id, in the graph's order
GetAdjacentEdgeRange(n) ==
    CASE n = 0 -> <<0, 1, 2, 3, 4>>
      [] n = 2 -> <<5>>
      [] n = 4 -> <<6>>
      [] n = 6 -> <<7>>
      [] OTHER -> <<>>

GetEdgeData(sc) == shortcut_list[sc]

GetTarget(sc) == shortcut_list[sc].target

\* routing_base.UnpackEdgeToEdges(from, to): the original edges of the
\* shortcut, each with its id and its distance (weight)
UnpackEdgeToEdges(from, to) ==
    CASE to = 10 -> <<[id |-> 100, distance |-> 45], [id |-> 101, distance |-> 7]>>
      [] to = 11 -> <<[id |-> 102, distance |-> 50], [id |-> 103, distance |-> 9],
                      [id |-> 104, distance |-> 11]>>
      [] to = 13 -> <<[id |-> 105, distance |-> 30]>>
      [] to = 14 -> <<[id |-> 106, distance |-> 120], [id |-> 107, distance |-> 11]>>
      [] to = 16 -> <<[id |-> 108, distance |-> 12], [id |-> 107, distance |-> 11]>>
      [] to = 17 -> <<[id |-> 109, distance |-> 40], [id |-> 110, distance |-> 11]>>
      [] OTHER   -> <<>>

GetGeometryIndexForEdgeID(e) ==
    CASE e = 101 -> 10
      [] e = 103 -> 11
      [] e = 107 -> 12
      [] e = 110 -> 13
      [] OTHER   -> 12

\* an edge (EdgeBasedNode segment) as GetEdgesInBox returns it
Edge(fgeo, rgeo, pos, u, v, fid, rid, fen, ren, tiny) ==
    [forward_packed_geometry_id |-> fgeo,
     reverse_packed_geometry_id |-> rgeo,
     fwd_segment_position       |-> pos,
     u |-> u, v |-> v,
     forward_segment_id |-> [id |-> fid, enabled |-> fen],
     reverse_segment_id |-> [id |-> rid, enabled |-> ren],
     is_tiny |-> tiny]

\* the segments of the data set, every combination of enabled flags
EdgeChoices ==
    UNION {
        {Edge(0, 1, 0, 1, 2, 0, 1, fen, ren, FALSE),
         Edge(0, 1, 1, 2, 3, 0, 1, fen, ren, FALSE),
         Edge(2, 3, 0, 1, 4, 2, 3, fen, ren, TRUE),
         Edge(4, SPECIAL_EDGEID, 0, 5, 6, 4, 5, fen, ren, FALSE),
         Edge(5, 6, 0, 2, 7, 6, 7, fen, ren, FALSE),
         Edge(7, 8, 0, 1, 5, 8, 9, fen, ren, TRUE),
         Edge(SPECIAL_EDGEID, 9, 0, 3, 8, 10, 11, fen, ren, FALSE)}
        : fen \in BOOLEAN, ren \in BOOLEAN}

\* segments whose position is past the end of the facade's arrays
ShortArrayEdges ==
    {Edge(0, 1, 2, 1, 2, 0, 1, TRUE, TRUE, FALSE),
     Edge(2, SPECIAL_EDGEID, 1, 1, 4, 2, 3, TRUE, FALSE, FALSE),
     Edge(SPECIAL_EDGEID, 9, 1, 3, 8, 10, 11, FALSE, TRUE, FALSE)}

-----------------------------------------------------------------------------
(* The request's parameters *)

TileParameters(x, y, z) == [x |-> x, y |-> y, z |-> z]

\* api::TileParameters::IsValid: x and y are in range for zoom level z
IsValid(params) ==
    /\ params.x <= 2 ^ params.z - 1
    /\ params.y <= 2 ^ params.z - 1

\* the tile the data set below is laid out for
RequestedTile == TileParameters(0, 0, 1)

\* requests a caller may send: the tile above and tiles whose x or y is out
\* of range for their z
ParameterChoices ==
    {RequestedTile, TileParameters(2, 0, 1), TileParameters(0, 2, 1),
     TileParameters(1, 1, 0)}

-----------------------------------------------------------------------------
(* Projection, clipping and geometry encoding *)

\* the Mercator bounding box of the requested tile (xyzToMercator)
tile_bbox == [minx |-> 0, miny |-> 0, maxx |-> 8192, maxy |-> 8192]

\* the padded box lines and points are clipped against
clip_box ==
    [minx |-> -BUFFER, miny |-> -BUFFER,
     maxx |-> EXTENT + BUFFER, maxy |-> EXTENT + BUFFER]

\* Mercator coordinates to tile pixels; y grows downward.  TILE_SIZE cancels.
ProjectX(c, bbox) == RoundDiv((c.x - bbox.minx) * EXTENT, bbox.maxx - bbox.minx)

ProjectY(c, bbox) == RoundDiv((bbox.maxy - c.y) * EXTENT, bbox.maxy - bbox.miny)

coordinatesToTilePoint(point, bbox) ==
    [x |-> ProjectX(point, bbox), y |-> ProjectY(point, bbox)]

\* boost::geometry::within(point, box): strictly inside
WithinStrict(p, box) ==
    /\ box.minx < p.x /\ p.x < box.maxx
    /\ box.miny < p.y /\ p.y < box.maxy

\* a mutant of within: the border counts as inside
WithinClosed(p, box) ==
    /\ box.minx <= p.x /\ p.x <= box.maxx
    /\ box.miny <= p.y /\ p.y <= box.maxy

within(p, box) == WithinStrict(p, box)

\* fractions n/d with d > 0
FracLess(a, b) == a.n * b.d < b.n * a.d

Frac(n, d) == IF d < 0 THEN [n |-> -n, d |-> -d] ELSE [n |-> n, d |-> d]

\* one boundary of the Liang-Barsky clip: st = [visible, t1, t2]
check_edge(p, q, st) ==
    IF ~st.visible THEN st
    ELSE IF p < 0 THEN
        LET r == Frac(q, p) IN
        IF FracLess(st.t2, r) THEN [st EXCEPT !.visible = FALSE]
        ELSE IF FracLess(st.t1, r) THEN [st EXCEPT !.t1 = r]
        ELSE st
    ELSE IF p > 0 THEN
        LET r == Frac(q, p) IN
        IF FracLess(r, st.t1) THEN [st EXCEPT !.visible = FALSE]
        ELSE IF FracLess(r, st.t2) THEN [st EXCEPT !.t2 = r]
        ELSE st
    ELSE IF q < 0 THEN [st EXCEPT !.visible = FALSE]
    ELSE st

\* the point p1 + t * (p2 - p1) converted to integer pixels
PointAt(p1, p2, t) ==
    [x |-> TruncDiv(p1.x * t.d + t.n * (p2.x - p1.x), t.d),
     y |-> TruncDiv(p1.y * t.d + t.n * (p2.y - p1.y), t.d)]

\* the four boundaries of the box in the order the clip tests them
ClipBoundaries(p1, p2, box) ==
    <<[p |-> -(p2.x - p1.x), q |-> p1.x - box.minx],
      [p |-> p2.x - p1.x,    q |-> box.maxx - p1.x],
      [p |-> -(p2.y - p1.y), q |-> p1.y - box.miny],
      [p |-> p2.y - p1.y,    q |-> box.maxy - p1.y]>>

RECURSIVE ClipBy(_, _)
ClipBy(boundaries, st) ==
    IF boundaries = <<>> THEN st
    ELSE ClipBy(Tail(boundaries),
                check_edge(Head(boundaries).p, Head(boundaries).q, st))

\* the clipped ends of a visible line
ClippedEnds(p1, p2, st) ==
    IF st.t1 = st.t2 \/ PointAt(p1, p2, st.t1) = PointAt(p1, p2, st.t2)
    THEN <<PointAt(p1, p2, st.t1)>>
    ELSE <<PointAt(p1, p2, st.t1), PointAt(p1, p2, st.t2)>>

\* boost::geometry::intersection(clip_box, line p1-p2): the first clipped
\* linestring, <<>> when the line misses the box, one point when the clipped
\* ends coincide
ClipSegment(p1, p2, box) ==
    LET st == ClipBy(ClipBoundaries(p1, p2, box),
                     [visible |-> TRUE, t1 |-> [n |-> 0, d |-> 1],
                      t2 |-> [n |-> 1, d |-> 1]])
    IN  IF ~st.visible THEN <<>> ELSE ClippedEnds(p1, p2, st)

\* coordinatesToTileLine: the projected line clipped to the box; empty unless
\* the clipped line has exactly two points
coordinatesToTileLine(start, target, bbox) ==
    LET clipped == ClipSegment(coordinatesToTilePoint(start, bbox),
                               coordinatesToTilePoint(target, bbox), clip_box)
    IN  IF Len(clipped) = 2 THEN clipped ELSE <<>>

\* protozero::encode_zigzag32
encode_zigzag32(n) == IF n >= 0 THEN 2 * n ELSE -2 * n - 1

\* detail::pbf::encode_length: (len << 3) | 2
encode_length(len) == len * 8 + 2

RECURSIVE EncodeDeltas(_, _)
EncodeDeltas(line, cursor) ==
    IF line = <<>> THEN <<>>
    ELSE <<encode_zigzag32(Head(line).x - cursor.x),
           encode_zigzag32(Head(line).y - cursor.y)>>
         \o EncodeDeltas(Tail(line), Head(line))

\* a mutant of encodeLinestring: the cursor is not moved to the first point
encodeLinestring_CursorStays(line, start) ==
    IF Len(line) < 2 THEN <<>>
    ELSE <<9>> \o EncodeDeltas(<<Head(line)>>, start)
         \o <<encode_length(Len(line) - 1)>>
         \o EncodeDeltas(Tail(line), start)

\* encodeLinestring: the elements added to the geometry field
encodeLinestring(line, start) ==
    IF Len(line) < 2 THEN <<>>
    ELSE <<9>> \o EncodeDeltas(<<Head(line)>>, start)
         \o <<encode_length(Len(line) - 1)>>
         \o EncodeDeltas(Tail(line), Head(line))

\* encodeLinestring: start_x, start_y after the call
encodeLinestringCursor(line, start) ==
    IF Len(line) < 2 THEN start ELSE line[Len(line)]

\* encodeLinestring: the value returned
encodeLinestringReturn(line) == Len(line) >= 2

\* no call of encodeLinestring on its own
NoCall ==
    [line |-> <<>>, start |-> [x |-> 0, y |-> 0], cursor |-> [x |-> 0, y |-> 0],
     geometry |-> <<>>, returned |-> "none"]

\* encodePoint
encodePoint(pt) == <<9, encode_zigzag32(pt.x), encode_zigzag32(pt.y)>>

\* util::coordinate_calculation::haversineDistance in metres, here the
\* rectilinear distance of the Mercator coordinates, scaled
haversineDistance(a, b) == (Abs(a.x - b.x) + Abs(a.y - b.y)) \div 100

\* util::coordinate_calculation::bearing, whole degrees in [0, 360), here to
\* the nearest of the eight compass directions
bearing(a, b) ==
    LET dx == b.x - a.x
        dy == b.y - a.y
    IN  CASE dx = 0 /\ dy >= 0 -> 0
          [] dx > 0 /\ dy > 0  -> 45
          [] dx > 0 /\ dy = 0  -> 90
          [] dx > 0 /\ dy < 0  -> 135
          [] dx = 0 /\ dy < 0  -> 180
          [] dx < 0 /\ dy < 0  -> 225
          [] dx < 0 /\ dy = 0  -> 270
          [] OTHER             -> 315

\* round(length / weight * 10 * 3.6), weight > 0
SpeedKmh(length, weight) == RoundDiv(length * 36, weight)

-----------------------------------------------------------------------------
(* Value interning *)

\* a mutant of use_line_value: the value is appended without the lookup
use_line_value_NoFind(ints, offsets, value) ==
    [ints    |-> Append(ints, value),
     offsets |-> (value :> Len(ints)) @@ offsets]

\* use_line_value: ints is used_line_ints, offsets is line_int_offsets
use_line_value(ints, offsets, value) ==
    IF value \notin DOMAIN offsets
    THEN [ints    |-> Append(ints, value),
          offsets |-> offsets @@ (value :> (Len(ints) + 1) - 1)]
    ELSE [ints |-> ints, offsets |-> offsets]

\* a mutant of use_point_value: the offset is the size after the push
use_point_value_OffByOne(ints, offsets, value) ==
    IF value \notin DOMAIN offsets
    THEN [ints    |-> Append(ints, value),
          offsets |-> offsets @@ (value :> Len(ints) + 1),
          offset  |-> Len(ints) + 1]
    ELSE [ints |-> ints, offsets |-> offsets, offset |-> offsets[value]]

\* use_point_value: ints is used_point_ints, offsets is point_int_offsets;
\* offset is the value returned
use_point_value(ints, offsets, value) ==
    IF value \notin DOMAIN offsets
    THEN [ints    |-> Append(ints, value),
          offsets |-> offsets @@ (value :> (Len(ints) + 1) - 1),
          offset  |-> (Len(ints) + 1) - 1]
    ELSE [ints |-> ints, offsets |-> offsets, offset |-> offsets[value]]

\* line_int_offsets[weight] in the emission pass: operator[] of the map, which
\* inserts the key with offset 0 when it is absent
LineOffsetLookup(offsets, weight) ==
    IF weight \in DOMAIN offsets
    THEN [offsets |-> offsets, offset |-> offsets[weight]]
    ELSE [offsets |-> offsets @@ (weight :> 0), offset |-> 0]

-----------------------------------------------------------------------------
(* Reading the facade's arrays *)

\* what a read past the end of a std::vector may yield
GarbageValues == {0, 7}

\* vec[idx] with idx counted from 0; past the end the behaviour is undefined
ReadAt(vec, idx) ==
    IF 0 <= idx /\ idx < Len(vec) THEN {vec[idx + 1]} ELSE GarbageValues

ForwardPresent(edge) == edge.forward_packed_geometry_id # SPECIAL_EDGEID

ReversePresent(edge) == edge.reverse_packed_geometry_id # SPECIAL_EDGEID

\* forward_weight_vector[edge.fwd_segment_position], 0 without a geometry
ForwardWeightRead(edge) ==
    IF ForwardPresent(edge)
    THEN ReadAt(GetUncompressedWeights(edge.forward_packed_geometry_id),
                edge.fwd_segment_position)
    ELSE {0}

ForwardDatasourceRead(edge) ==
    IF ForwardPresent(edge)
    THEN ReadAt(GetUncompressedDatasources(edge.forward_packed_geometry_id),
                edge.fwd_segment_position)
    ELSE {0}

\* a mutant of ReverseWeightRead: the position is not mirrored
ReverseWeightRead_NotMirrored(edge) ==
    IF ReversePresent(edge)
    THEN ReadAt(GetUncompressedWeights(edge.reverse_packed_geometry_id),
                edge.fwd_segment_position)
    ELSE {0}

\* reverse_weight_vector[size - edge.fwd_segment_position - 1]
ReverseWeightRead(edge) ==
    IF ReversePresent(edge)
    THEN LET vec == GetUncompressedWeights(edge.reverse_packed_geometry_id)
         IN  ReadAt(vec, Len(vec) - edge.fwd_segment_position - 1)
    ELSE {0}

ReverseDatasourceRead(edge) ==
    IF ReversePresent(edge)
    THEN LET vec == GetUncompressedDatasources(edge.reverse_packed_geometry_id)
         IN  ReadAt(vec, Len(vec) - edge.fwd_segment_position - 1)
    ELSE {0}

\* a mutant of the max update: the reverse datasource is left out
UpdateMaxDatasourceForwardOnly(m, forward_datasource, reverse_datasource) ==
    Max(m, forward_datasource)

\* max_datasource_id = std::max(max_datasource_id, forward_datasource), then
\* the same with reverse_datasource
UpdateMaxDatasource(m, forward_datasource, reverse_datasource) ==
    Max(Max(m, forward_datasource), reverse_datasource)

\* the edge reads an array past its end
ReadsPastEnd(edge) ==
    \/ /\ ForwardPresent(edge)
       /\ edge.fwd_segment_position >=
              Len(GetUncompressedWeights(edge.forward_packed_geometry_id))
    \/ /\ ReversePresent(edge)
       /\ edge.fwd_segment_position >=
              Len(GetUncompressedWeights(edge.reverse_packed_geometry_id))

-----------------------------------------------------------------------------
(* Turn reconstruction (tally pass) *)

\* the forward segment is the last one of its node-based edge
IsLastSegment(edge) ==
    edge.fwd_segment_position =
        Len(GetUncompressedGeometry(edge.forward_packed_geometry_id)) - 1

\* a mutant of emplace: an existing key's value is overwritten
emplace_overwrite(map, key, value) ==
    (key :> value) @@ map

\* std::unordered_map::emplace: no effect when the key is present
emplace(map, key, value) ==
    IF key \in DOMAIN map THEN map ELSE map @@ (key :> value)

\* the shortcut is kept: forward travel enabled, unpacks to two edges or more
ShortcutRetained(edge, adj_shortcut) ==
    /\ GetEdgeData(adj_shortcut).forward
    /\ Len(UnpackEdgeToEdges(edge.forward_segment_id.id, GetTarget(adj_shortcut))) >= 2

\* first_geometry_vector.front() of a retained shortcut
ShortcutNextNode(edge, adj_shortcut) ==
    LET unpacked_shortcut ==
            UnpackEdgeToEdges(edge.forward_segment_id.id, GetTarget(adj_shortcut))
    IN  Head(GetUncompressedGeometry(GetGeometryIndexForEdgeID(unpacked_shortcut[2].id)))

\* sum_edge_weight - sum_node_weight of a retained shortcut
ShortcutTurnWeight(edge, adj_shortcut) ==
    LET unpacked_shortcut ==
            UnpackEdgeToEdges(edge.forward_segment_id.id, GetTarget(adj_shortcut))
        sum_node_weight ==
            SumSeq(GetUncompressedWeights(edge.forward_packed_geometry_id))
    IN  unpacked_shortcut[1].distance - sum_node_weight

\* the loop over facade.GetAdjacentEdgeRange filling c_nodes
RECURSIVE CollectNextNodes(_, _, _)
CollectNextNodes(edge, shortcuts, c_nodes) ==
    IF shortcuts = <<>> THEN c_nodes
    ELSE LET adj_shortcut == Head(shortcuts)
         IN  IF ShortcutRetained(edge, adj_shortcut)
             THEN CollectNextNodes(edge, Tail(shortcuts),
                      emplace(c_nodes, ShortcutNextNode(edge, adj_shortcut),
                              ShortcutTurnWeight(edge, adj_shortcut)))
             ELSE CollectNextNodes(edge, Tail(shortcuts), c_nodes)

\* c_nodes of an edge: next node -> turn weight; empty when the forward
\* geometry is absent or the segment does not end the node-based edge
CNodes(edge) ==
    IF ForwardPresent(edge) /\ IsLastSegment(edge)
    THEN CollectNextNodes(edge, GetAdjacentEdgeRange(edge.forward_segment_id.id), <<>>)
    ELSE <<>>

\* coord_a: the node before the intersection
CoordA(edge) ==
    LET forward_node_vector == GetUncompressedGeometry(edge.forward_packed_geometry_id)
    IN  GetCoordinateOfNode(IF Len(forward_node_vector) > 1
                            THEN forward_node_vector[Len(forward_node_vector) - 1]
                            ELSE edge.u)

AngleIn(edge) == bearing(CoordA(edge), GetCoordinateOfNode(edge.v))

AngleOut(edge, next_node) ==
    bearing(GetCoordinateOfNode(edge.v), GetCoordinateOfNode(next_node))

\* the loop over c_nodes in the map's iteration order `order`
RECURSIVE TurnLoop(_, _, _, _, _, _)
TurnLoop(edge, order, c_nodes, ints, offsets, angle_in_offset) ==
    IF order = <<>> THEN [ints |-> ints, offsets |-> offsets, data |-> <<>>]
    ELSE LET out  == use_point_value(ints, offsets, AngleOut(edge, Head(order)))
             wgt  == use_point_value(out.ints, out.offsets, c_nodes[Head(order)])
             rest == TurnLoop(edge, Tail(order), c_nodes, wgt.ints, wgt.offsets,
                              angle_in_offset)
         IN  [rest EXCEPT !.data =
                 <<[in_angle_offset  |-> angle_in_offset,
                    out_angle_offset |-> out.offset,
                    weight_offset    |-> wgt.offset]>> \o @]

\* a mutant of ReconstructTurns: angle_in is interned before the test of
\* c_nodes.size()
ReconstructTurns_InternsAngleInFirst(edge, order, ints, offsets) ==
    LET c_nodes == CNodes(edge)
    IN  IF ~(ForwardPresent(edge) /\ IsLastSegment(edge))
        THEN [ints |-> ints, offsets |-> offsets, data |-> <<>>]
        ELSE LET in == use_point_value(ints, offsets, AngleIn(edge))
             IN  TurnLoop(edge, order, c_nodes, in.ints, in.offsets, in.offset)

\* edge_turn_data of one edge and the point value table after it
ReconstructTurns(edge, order, ints, offsets) ==
    LET c_nodes == CNodes(edge)
    IN  IF DOMAIN c_nodes = {}
        THEN [ints |-> ints, offsets |-> offsets, data |-> <<>>]
        ELSE LET in == use_point_value(ints, offsets, AngleIn(edge))
             IN  TurnLoop(edge, order, c_nodes, in.ints, in.offsets, in.offset)

-----------------------------------------------------------------------------
(* The tile being written *)

\* add_uint64 of an int: num is the int (a negative one is written as its
\* 64-bit two's complement)
UInt64Value(n)  == [type |-> "uint64", num |-> n, den |-> 1, str |-> ""]
BoolValue(b)    == [type |-> "bool", num |-> IF b THEN 1 ELSE 0, den |-> 1, str |-> ""]
StringValue(t)  == [type |-> "string", num |-> 0, den |-> 1, str |-> t]
\* value / 10. as a double
DoubleValue(n)  == [type |-> "double", num |-> n, den |-> 10, str |-> ""]

\* a mutant of DurationIndex: the datasource names are not skipped
DurationIndex_NoDatasources(maxds, duration) == DatasourceBase + 1 + duration

\* 130 + max_datasource_id + 1 + duration
DurationIndex(maxds, duration) == DatasourceBase + maxds + 1 + duration

\* a mutant of encode_tile_line: the is_small value index the other way round
encode_tile_line_IsSmallSwapped(edge, feature_id, maxds, tile_line, speed_kmh, duration, datasource) ==
    [type     |-> 2,
     id       |-> feature_id,
     tags     |-> <<0, Min(speed_kmh, SpeedValues - 1),
                    1, SpeedValues + (IF edge.is_tiny THEN 1 ELSE 0),
                    2, DatasourceBase + datasource,
                    3, DurationIndex(maxds, duration)>>,
     geometry |-> encodeLinestring(tile_line, [x |-> 0, y |-> 0])]

\* encode_tile_line: the feature written for one direction of an edge
encode_tile_line(edge, feature_id, maxds, tile_line, speed_kmh, duration, datasource) ==
    [type     |-> 2,
     id       |-> feature_id,
     tags     |-> <<0, Min(speed_kmh, SpeedValues - 1),
                    1, SpeedValues + (IF edge.is_tiny THEN 0 ELSE 1),
                    2, DatasourceBase + datasource,
                    3, DurationIndex(maxds, duration)>>,
     geometry |-> encodeLinestring(tile_line, [x |-> 0, y |-> 0])]

\* encode_tile_point: the feature written for one turn of an edge
encode_tile_point(feature_id, tile_point, point_turn_data) ==
    [type     |-> 1,
     id       |-> feature_id,
     tags     |-> <<0, point_turn_data.in_angle_offset,
                    1, point_turn_data.out_angle_offset,
                    2, point_turn_data.weight_offset>>,
     geometry |-> encodePoint(tile_point)]

\* a mutant of the layer header: the version of the older tile format
LayerHeaderVersion1(name) ==
    [version |-> 1, name |-> name, extent |-> EXTENT,
     features |-> <<>>, keys |-> <<>>, values |-> <<>>]

\* the layer message as its header is written
LayerHeader(name) ==
    [version |-> 2, name |-> name, extent |-> EXTENT,
     features |-> <<>>, keys |-> <<>>, values |-> <<>>]

SpeedsKeys == <<"speed", "is_small", "datasource", "duration">>

TurnsKeys == <<"bearing_in", "bearing_out", "weight">>

\* a mutant of the speeds values: false is written before true
SpeedsValuesBoolsSwapped(maxds, line_ints) ==
    [k \in 1..SpeedValues |-> UInt64Value(k - 1)]
    \o <<BoolValue(FALSE), BoolValue(TRUE)>>
    \o [k \in 1..(maxds + 1) |-> StringValue(GetDatasourceName(k - 1))]
    \o [k \in 1..Len(line_ints) |-> DoubleValue(line_ints[k])]

\* the values of the "speeds" layer
SpeedsValues(maxds, line_ints) ==
    [k \in 1..SpeedValues |-> UInt64Value(k - 1)]
    \o <<BoolValue(TRUE), BoolValue(FALSE)>>
    \o [k \in 1..(maxds + 1) |-> StringValue(GetDatasourceName(k - 1))]
    \o [k \in 1..Len(line_ints) |-> DoubleValue(line_ints[k])]

\* the values of the "turns" layer
TurnsValues(point_ints) ==
    [k \in 1..Len(point_ints) |-> UInt64Value(point_ints[k])]

-----------------------------------------------------------------------------
(* HandleRequest *)

\* the state at the start of the tally loop, for an edge list out of `choices`
InitWith(choices) ==
    /\ linestring = NoCall
    /\ parameters = RequestedTile
    /\ edges \in BoundedSeq(choices, MaxEdges)
    /\ pc = "tally"
    /\ i = 0
    /\ used_line_ints = <<>>
    /\ line_int_offsets = <<>>
    /\ max_datasource_id = 0
    /\ used_point_ints = <<>>
    /\ point_int_offsets = <<>>
    /\ all_turn_data = <<>>
    /\ layers = <<>>
    /\ id = 0
    /\ status = "running"

Init == InitWith(EdgeChoices)

\* one iteration of the tally loop over the edges
TallyEdge ==
    /\ pc = "tally"
    /\ i < Len(edges)
    /\ LET edge == edges[i + 1] IN
       \E forward_weight \in ForwardWeightRead(edge),
          forward_datasource \in ForwardDatasourceRead(edge),
          reverse_weight \in ReverseWeightRead(edge),
          reverse_datasource \in ReverseDatasourceRead(edge),
          order \in Perms(DOMAIN CNodes(edge)) :
         LET line0 == [ints |-> used_line_ints, offsets |-> line_int_offsets]
             line1 == IF ForwardPresent(edge)
                      THEN use_line_value(line0.ints, line0.offsets, forward_weight)
                      ELSE line0
             turns == ReconstructTurns(edge, order, used_point_ints, point_int_offsets)
             line2 == IF ReversePresent(edge)
                      THEN use_line_value(line1.ints, line1.offsets, reverse_weight)
                      ELSE line1
         IN  /\ used_line_ints' = line2.ints
             /\ line_int_offsets' = line2.offsets
             /\ used_point_ints' = turns.ints
             /\ point_int_offsets' = turns.offsets
             /\ max_datasource_id' =
                    UpdateMaxDatasource(max_datasource_id, forward_datasource,
                                        reverse_datasource)
             /\ all_turn_data' = Append(all_turn_data, turns.data)
    /\ i' = i + 1
    /\ UNCHANGED <<linestring, parameters, edges, pc, layers, id, status>>

\* the header of the "speeds" layer and its feature id counter
BeginSpeedsLayer ==
    /\ pc = "tally"
    /\ i = Len(edges)
    /\ layers' = Append(layers, LayerHeader("speeds"))
    /\ id' = 1
    /\ i' = 0
    /\ pc' = "lines"
    /\ UNCHANGED <<linestring, parameters, edges,
                   used_line_ints, line_int_offsets, max_datasource_id,
                   used_point_ints, point_int_offsets, all_turn_data, status>>

\* a mutant of the forward guard: a disabled direction passes
ForwardGuardWeightOnly(forward_weight, edge) ==
    forward_weight # 0

\* the forward direction of the edge is written: weight and enabled flag
ForwardGuard(forward_weight, edge) ==
    forward_weight # 0 /\ edge.forward_segment_id.enabled

\* a mutant of the reverse guard: a disabled direction passes
ReverseGuardWeightOnly(reverse_weight, edge) ==
    reverse_weight # 0

\* the reverse direction of the edge is written
ReverseGuard(reverse_weight, edge) ==
    reverse_weight # 0 /\ edge.reverse_segment_id.enabled

\* a mutant of EmitDirection: line_int_offsets[weight] is evaluated before
\* the direction is tested
EmitDirection_LookupFirst(out, edge, index, maxds, length, guard, weight, datasource, from, to, direction) ==
    LET tile_line == coordinatesToTileLine(GetCoordinateOfNode(from),
                                           GetCoordinateOfNode(to), tile_bbox)
        look == LineOffsetLookup(out.offsets, weight)
    IN  IF guard /\ tile_line # <<>>
        THEN [features |-> Append(out.features,
                  encode_tile_line(edge, out.id, maxds, tile_line,
                                   SpeedKmh(length, weight), look.offset, datasource)
                  @@ [edge |-> index, direction |-> direction]),
              offsets |-> look.offsets,
              id |-> out.id + 1]
        ELSE [out EXCEPT !.offsets = look.offsets]

\* a mutant of EmitDirection: the id counter advances for a skipped direction
EmitDirection_IdPerDirection(out, edge, index, maxds, length, guard, weight, datasource, from, to, direction) ==
    LET tile_line == coordinatesToTileLine(GetCoordinateOfNode(from),
                                           GetCoordinateOfNode(to), tile_bbox)
        look == LineOffsetLookup(out.offsets, weight)
    IN  IF guard /\ tile_line # <<>>
        THEN [features |-> Append(out.features,
                  encode_tile_line(edge, out.id, maxds, tile_line,
                                   SpeedKmh(length, weight), look.offset, datasource)
                  @@ [edge |-> index, direction |-> direction]),
              offsets |-> look.offsets,
              id |-> out.id + 1]
        ELSE [out EXCEPT !.id = @ + 1]

\* one direction of an edge in the line loop: out is [features, offsets, id]
\* so far; the line runs from node `from` to node `to`
EmitDirection(out, edge, index, maxds, length, guard, weight, datasource, from, to, direction) ==
    LET tile_line == coordinatesToTileLine(GetCoordinateOfNode(from),
                                           GetCoordinateOfNode(to), tile_bbox)
        look == LineOffsetLookup(out.offsets, weight)
    IN  IF guard /\ tile_line # <<>>
        THEN [features |-> Append(out.features,
                  encode_tile_line(edge, out.id, maxds, tile_line,
                                   SpeedKmh(length, weight), look.offset, datasource)
                  @@ [edge |-> index, direction |-> direction]),
              offsets |-> look.offsets,
              id |-> out.id + 1]
        ELSE out

\* the features one iteration of the line loop writes, with the offsets map
\* and feature id after it
LineFeatures(edge, index, offsets, feature_id, maxds, fwd_weight, fwd_datasource, rev_weight, rev_datasource) ==
    EmitDirection(
        EmitDirection([features |-> <<>>, offsets |-> offsets, id |-> feature_id],
                      edge, index, maxds,
                      haversineDistance(GetCoordinateOfNode(edge.u),
                                        GetCoordinateOfNode(edge.v)),
                      ForwardGuard(fwd_weight, edge),
                      fwd_weight, fwd_datasource, edge.u, edge.v, "forward"),
        edge, index, maxds,
        haversineDistance(GetCoordinateOfNode(edge.u), GetCoordinateOfNode(edge.v)),
        ReverseGuard(rev_weight, edge),
        rev_weight, rev_datasource, edge.v, edge.u, "reverse")

\* one iteration of the line loop.  Each feature also records the index of
\* its edge and its direction, which the tile itself does not hold.
EmitLineEdge ==
    /\ pc = "lines"
    /\ i < Len(edges)
    /\ LET edge == edges[i + 1] IN
       \E forward_weight \in ForwardWeightRead(edge),
          forward_datasource \in ForwardDatasourceRead(edge),
          reverse_weight \in ReverseWeightRead(edge),
          reverse_datasource \in ReverseDatasourceRead(edge) :
         LET maxds == UpdateMaxDatasource(max_datasource_id, forward_datasource,
                                          reverse_datasource)
             out == LineFeatures(edge, i + 1, line_int_offsets, id, maxds,
                                 forward_weight, forward_datasource,
                                 reverse_weight, reverse_datasource)
         IN  /\ max_datasource_id' = maxds
             /\ line_int_offsets' = out.offsets
             /\ id' = out.id
             /\ layers' = [layers EXCEPT ![1].features = @ \o out.features]
    /\ i' = i + 1
    /\ UNCHANGED <<linestring, parameters, edges,
                   pc, used_line_ints, used_point_ints, point_int_offsets,
                   all_turn_data, status>>

\* the keys and values of the "speeds" layer; the layer is closed
FinishSpeedsLayer ==
    /\ pc = "lines"
    /\ i = Len(edges)
    /\ layers' = [layers EXCEPT ![1].keys = SpeedsKeys,
                                ![1].values = SpeedsValues(max_datasource_id,
                                                           used_line_ints)]
    /\ pc' = "speeds_written"
    /\ UNCHANGED <<linestring, parameters, edges,
                   i, used_line_ints, line_int_offsets, max_datasource_id,
                   used_point_ints, point_int_offsets, all_turn_data, id, status>>

\* the header of the "turns" layer and its feature id counter
BeginTurnsLayer ==
    /\ pc = "speeds_written"
    /\ layers' = Append(layers, LayerHeader("turns"))
    /\ id' = 1
    /\ i' = 0
    /\ pc' = "points"
    /\ UNCHANGED <<linestring, parameters, edges,
                   used_line_ints, line_int_offsets, max_datasource_id,
                   used_point_ints, point_int_offsets, all_turn_data, status>>

\* the features one iteration of the point loop writes
PointFeatures(edge, index, edge_turn_data, feature_id) ==
    IF edge_turn_data = <<>> THEN <<>>
    ELSE IF ~IsLastSegment(edge) THEN <<>>
    ELSE LET tile_point == coordinatesToTilePoint(GetCoordinateOfNode(edge.v), tile_bbox)
         IN  IF ~within(tile_point, clip_box) THEN <<>>
             ELSE [k \in 1..Len(edge_turn_data) |->
                      encode_tile_point(feature_id + k - 1, tile_point, edge_turn_data[k])
                      @@ [edge |-> index, direction |-> "forward"]]

\* one iteration of the point loop
EmitPointEdge ==
    /\ pc = "points"
    /\ i < Len(edges)
    /\ LET out == PointFeatures(edges[i + 1], i + 1, all_turn_data[i + 1], id)
       IN  /\ layers' = [layers EXCEPT ![2].features = @ \o out]
           /\ id' = id + Len(out)
    /\ i' = i + 1
    /\ UNCHANGED <<linestring, parameters, edges,
                   pc, used_line_ints, line_int_offsets, max_datasource_id,
                   used_point_ints, point_int_offsets, all_turn_data, status>>

\* the keys and values of the "turns" layer; return Status::Ok
FinishTurnsLayer ==
    /\ pc = "points"
    /\ i = Len(edges)
    /\ layers' = [layers EXCEPT ![2].keys = TurnsKeys,
                                ![2].values = TurnsValues(used_point_ints)]
    /\ status' = "Ok"
    /\ pc' = "done"
    /\ UNCHANGED <<linestring, parameters, edges,
                   i, used_line_ints, line_int_offsets, max_datasource_id,
                   used_point_ints, point_int_offsets, all_turn_data, id>>

Next ==
    \/ TallyEdge
    \/ BeginSpeedsLayer
    \/ EmitLineEdge
    \/ FinishSpeedsLayer
    \/ BeginTurnsLayer
    \/ EmitPointEdge
    \/ FinishTurnsLayer

Spec == Init /\ [][Next]_vars

-----------------------------------------------------------------------------
(* The request over a facade whose arrays may be shorter than the segment  *)
(* position.  A read past the end is undefined: it yields some value, or   *)
(* the process dies (the BOOST_ASSERT of a debug build, a fault).          *)

InitShortArrays == InitWith(EdgeChoices \cup ShortArrayEdges)

\* the process dies at a read past the end of an array
Abort ==
    /\ pc \in {"tally", "lines"}
    /\ i < Len(edges)
    /\ ReadsPastEnd(edges[i + 1])
    /\ pc' = "crashed"
    /\ status' = "crashed"
    /\ UNCHANGED <<linestring, parameters, edges,
                   i, used_line_ints, line_int_offsets, max_datasource_id,
                   used_point_ints, point_int_offsets, all_turn_data, layers, id>>

NextShortArrays == Next \/ Abort

SpecShortArrays == InitShortArrays /\ [][NextShortArrays]_vars

-----------------------------------------------------------------------------
(* The request from its entry, for parameters that need not be valid.  The *)
(* only test of the parameters is BOOST_ASSERT(parameters.IsValid()): a    *)
(* build with assertions dies there, a build without them goes on to the   *)
(* facade query with the box of whatever tile the numbers name.  The data  *)
(* set is kept relative to that box.                                       *)

InitRequest ==
    /\ linestring = NoCall
    /\ parameters \in ParameterChoices
    /\ edges = <<>>
    /\ pc = "entry"
    /\ i = 0
    /\ used_line_ints = <<>>
    /\ line_int_offsets = <<>>
    /\ max_datasource_id = 0
    /\ used_point_ints = <<>>
    /\ point_int_offsets = <<>>
    /\ all_turn_data = <<>>
    /\ layers = <<>>
    /\ id = 0
    /\ status = "running"

\* BOOST_ASSERT(parameters.IsValid()) fails in a build with assertions
AssertIsValidFails ==
    /\ pc = "entry"
    /\ ~IsValid(parameters)
    /\ pc' = "crashed"
    /\ status' = "crashed"
    /\ UNCHANGED <<linestring, parameters, edges, i, used_line_ints, line_int_offsets,
                   max_datasource_id, used_point_ints, point_int_offsets,
                   all_turn_data, layers, id>>

\* xyzToWGS84 and facade.GetEdgesInBox: reached with valid parameters, and
\* with invalid ones in a build without assertions
GetEdgesInBox ==
    /\ pc = "entry"
    /\ edges' \in BoundedSeq(EdgeChoices, MaxEdges)
    /\ pc' = "tally"
    /\ UNCHANGED <<linestring, parameters, i, used_line_ints, line_int_offsets,
                   max_datasource_id, used_point_ints, point_int_offsets,
                   all_turn_data, layers, id, status>>

NextRequest == Next \/ AssertIsValidFails \/ GetEdgesInBox

SpecRequest == InitRequest /\ [][NextRequest]_vars

-----------------------------------------------------------------------------
(* encodeLinestring called on its own, next to the request that calls it   *)
(* for every line feature: the call's inputs are a line of up to MaxLine   *)
(* points and a cursor.                                                    *)

\* points a line is made of: inside the tile, in the buffer, on both sides of 0
LinePoints ==
    {[x |-> 0, y |-> 0], [x |-> -128, y |-> 5], [x |-> 4224, y |-> -3],
     [x |-> 7, y |-> 4096]}

\* values of start_x, start_y at the call
LineCursors == {[x |-> 0, y |-> 0], [x |-> 10, y |-> -20], [x |-> -1, y |-> 4000]}

InitEncodeLinestring ==
    /\ linestring \in {[line |-> line, start |-> start, cursor |-> start,
                        geometry |-> <<>>, returned |-> "none"] :
                           line \in BoundedSeq(LinePoints, MaxLine),
                           start \in LineCursors}
    /\ parameters = RequestedTile
    /\ edges = <<>>
    /\ pc = "encodeLinestring"
    /\ i = 0
    /\ used_line_ints = <<>>
    /\ line_int_offsets = <<>>
    /\ max_datasource_id = 0
    /\ used_point_ints = <<>>
    /\ point_int_offsets = <<>>
    /\ all_turn_data = <<>>
    /\ layers = <<>>
    /\ id = 0
    /\ status = "running"

\* the call of encodeLinestring(line, geometry, start_x, start_y)
EncodeLinestringCall ==
    /\ pc = "encodeLinestring"
    /\ linestring' =
           [line     |-> linestring.line,
            start    |-> linestring.start,
            cursor   |-> encodeLinestringCursor(linestring.line, linestring.cursor),
            geometry |-> linestring.geometry
                         \o encodeLinestring(linestring.line, linestring.cursor),
            returned |-> IF encodeLinestringReturn(linestring.line)
                         THEN "true" ELSE "false"]
    /\ pc' = "returned"
    /\ UNCHANGED <<parameters, edges, i, used_line_ints, line_int_offsets,
                   max_datasource_id, used_point_ints, point_int_offsets,
                   all_turn_data, layers, id, status>>

InitLinestring == Init \/ InitEncodeLinestring

NextLinestring == Next \/ EncodeLinestringCall

SpecLinestring == InitLinestring /\ [][NextLinestring]_vars

-----------------------------------------------------------------------------
(* What the claims speak of, read off the facade and the finished tile *)

\* the weight of a direction of an edge as the facade holds it; an absent
\* geometry id counts as weight 0
DirectionWeight(edge, direction) ==
    IF direction = "forward"
    THEN IF edge.forward_packed_geometry_id = SPECIAL_EDGEID THEN 0
         ELSE geometry_list[edge.forward_packed_geometry_id]
                  .weights[edge.fwd_segment_position + 1]
    ELSE IF edge.reverse_packed_geometry_id = SPECIAL_EDGEID THEN 0
         ELSE LET w == geometry_list[edge.reverse_packed_geometry_id].weights
              IN  w[Len(w) - edge.fwd_segment_position]

DirectionEnabled(edge, direction) ==
    IF direction = "forward" THEN edge.forward_segment_id.enabled
    ELSE edge.reverse_segment_id.enabled

\* the clipped line of a direction has its two points
DirectionVisible(edge, direction) ==
    IF direction = "forward"
    THEN coordinatesToTileLine(GetCoordinateOfNode(edge.u),
                               GetCoordinateOfNode(edge.v), tile_bbox) # <<>>
    ELSE coordinatesToTileLine(GetCoordinateOfNode(edge.v),
                               GetCoordinateOfNode(edge.u), tile_bbox) # <<>>

Directions == {"forward", "reverse"}

\* the features of layer l written for edge index and direction
FeaturesOf(l, index, direction) ==
    {k \in 1..Len(layers[l].features) :
        /\ layers[l].features[k].edge = index
        /\ layers[l].features[k].direction = direction}

\* the (key index, value index) pairs of a feature
TagPairs(feature) ==
    {<<feature.tags[2 * k - 1], feature.tags[2 * k]>> : k \in 1..(Len(feature.tags) \div 2)}

-----------------------------------------------------------------------------
(* C1: in the finished tile every (key index, value index) pair of every   *)
(* feature of "speeds" and "turns" is in range: the key index is below the *)
(* number of keys of its layer (4 for speeds, 3 for turns) and the value   *)
(* index is below the length of the layer's values array.                  *)
C1_TagsIndexValidly ==
    pc = "done" =>
        /\ Len(layers[1].keys) = 4
        /\ Len(layers[2].keys) = 3
        /\ \A l \in 1..2 : \A k \in 1..Len(layers[l].features) :
               \A pair \in TagPairs(layers[l].features[k]) :
                   /\ 0 <= pair[1] /\ pair[1] < Len(layers[l].keys)
                   /\ 0 <= pair[2] /\ pair[2] < Len(layers[l].values)

\* a finished tile with line and point features, one of them referring to the
\* last entry of its layer's values
C1_Witness ==
    /\ pc = "done"
    /\ Len(layers[1].features) >= 2
    /\ Len(layers[2].features) >= 2
    /\ \E k \in 1..Len(layers[1].features) :
           layers[1].features[k].tags[8] = Len(layers[1].values) - 1
    /\ \E k \in 1..Len(layers[2].features) :
           layers[2].features[k].tags[6] = Len(layers[2].values) - 1

(* C2: no forward "speeds" feature exists for an edge whose forward weight *)
(* is 0 (an absent geometry id counts as 0) or whose forward segment is    *)
(* not enabled; the same for the reverse direction.                        *)
C2_NoFeatureForZeroWeightOrDisabled ==
    Len(layers) >= 1 =>
        \A index \in 1..Len(edges) : \A direction \in Directions :
            (DirectionWeight(edges[index], direction) = 0
             \/ ~DirectionEnabled(edges[index], direction))
            => FeaturesOf(1, index, direction) = {}

\* a finished tile with a feature, for an edge list with a direction of
\* non-zero weight that is disabled, an enabled direction of weight 0 and an
\* enabled direction without geometry id
C2_Witness ==
    /\ pc = "done"
    /\ Len(layers[1].features) >= 1
    /\ \E index \in 1..Len(edges) :
           /\ DirectionWeight(edges[index], "forward") # 0
           /\ ~edges[index].forward_segment_id.enabled
           /\ edges[index].reverse_segment_id.enabled
           /\ FeaturesOf(1, index, "reverse") # {}
    /\ \E index \in 1..Len(edges) :
           /\ edges[index].reverse_segment_id.enabled
           /\ \/ edges[index].reverse_packed_geometry_id = SPECIAL_EDGEID
              \/ DirectionWeight(edges[index], "reverse") = 0

(* C3, as claimed: in the finished tile a direction of an edge has exactly *)
(* one "speeds" feature if its weight is not 0 and it is enabled, and none *)
(* otherwise.                                                              *)
C3_EmittedIffWeightAndEnabled ==
    pc = "done" =>
        \A index \in 1..Len(edges) : \A direction \in Directions :
            Cardinality(FeaturesOf(1, index, direction)) =
                IF /\ DirectionWeight(edges[index], direction) # 0
                   /\ DirectionEnabled(edges[index], direction)
                THEN 1 ELSE 0

(* C3, amended: in the finished tile a direction of an edge has exactly    *)
(* one "speeds" feature if its weight is not 0, it is enabled and its line *)
(* clipped to the padded tile box has two points, and none otherwise.      *)
C3_EmittedIffWeightEnabledAndVisible ==
    pc = "done" =>
        \A index \in 1..Len(edges) : \A direction \in Directions :
            Cardinality(FeaturesOf(1, index, direction)) =
                IF /\ DirectionWeight(edges[index], direction) # 0
                   /\ DirectionEnabled(edges[index], direction)
                   /\ DirectionVisible(edges[index], direction)
                THEN 1 ELSE 0

\* a finished tile with one edge written in both directions and one edge of
\* non-zero weight, enabled, whose line clips away
C3_Witness ==
    /\ pc = "done"
    /\ \E index \in 1..Len(edges) :
           /\ Cardinality(FeaturesOf(1, index, "forward")) = 1
           /\ Cardinality(FeaturesOf(1, index, "reverse")) = 1
    /\ \E index \in 1..Len(edges) : \E direction \in Directions :
           /\ DirectionWeight(edges[index], direction) # 0
           /\ DirectionEnabled(edges[index], direction)
           /\ ~DirectionVisible(edges[index], direction)
           /\ FeaturesOf(1, index, direction) = {}

-----------------------------------------------------------------------------
(* The values the tally pass interns, read off the facade *)

\* the line weights of the edges in the order the tally pass meets them:
\* per edge the forward weight, then the reverse weight, of the directions
\* that have a geometry id
RECURSIVE LineWeightsOf(_)
LineWeightsOf(es) ==
    IF es = <<>> THEN <<>>
    ELSE (IF Head(es).forward_packed_geometry_id # SPECIAL_EDGEID
          THEN <<DirectionWeight(Head(es), "forward")>> ELSE <<>>)
         \o (IF Head(es).reverse_packed_geometry_id # SPECIAL_EDGEID
             THEN <<DirectionWeight(Head(es), "reverse")>> ELSE <<>>)
         \o LineWeightsOf(Tail(es))

\* the distinct elements of a sequence in the order of their first occurrence
RECURSIVE FirstSeen(_, _)
FirstSeen(seq, seen) ==
    IF seq = <<>> THEN <<>>
    ELSE IF Head(seq) \in seen THEN FirstSeen(Tail(seq), seen)
    ELSE <<Head(seq)>> \o FirstSeen(Tail(seq), seen \cup {Head(seq)})

\* the datasource ids of the directions of the edges that have a geometry id
DatasourcesOf(es) ==
    {geometry_list[es[k].forward_packed_geometry_id]
         .datasources[es[k].fwd_segment_position + 1] :
        k \in {j \in 1..Len(es) : es[j].forward_packed_geometry_id # SPECIAL_EDGEID}}
    \cup
    {LET d == geometry_list[es[k].reverse_packed_geometry_id].datasources
     IN  d[Len(d) - es[k].fwd_segment_position] :
        k \in {j \in 1..Len(es) : es[j].reverse_packed_geometry_id # SPECIAL_EDGEID}}

\* the largest element of a set of naturals, 0 for the empty set
MaxOf(S) == IF S = {} THEN 0 ELSE CHOOSE m \in S : \A n \in S : n <= m

\* a value table assigns the offsets 0..n-1 in insertion order: the entry at
\* offset(v) is v, distinct values have distinct offsets
TableConsistent(ints, offsets) ==
    /\ DOMAIN offsets = {ints[k] : k \in 1..Len(ints)}
    /\ \A k \in 1..Len(ints) : offsets[ints[k]] = k - 1
    /\ \A v1, v2 \in DOMAIN offsets : v1 # v2 => offsets[v1] # offsets[v2]
    /\ {offsets[v] : v \in DOMAIN offsets} = 0..(Len(ints) - 1)

\* the table after a step keeps every entry and every offset of the table
\* before it
TableExtends(ints, offsets, ints2, offsets2) ==
    /\ Len(ints) <= Len(ints2)
    /\ SubSeq(ints2, 1, Len(ints)) = ints
    /\ \A v \in DOMAIN offsets : v \in DOMAIN offsets2 /\ offsets2[v] = offsets[v]

(* C4: through every step of the request both value tables stay consistent *)
(* (distinct values have distinct offsets, the entry at offset(v) is v,    *)
(* the offsets are 0..n-1 in first-insertion order) and a value that is    *)
(* interned again keeps the offset of its first insertion.                 *)
C4_InterningKeepsOffsets ==
    [][/\ TableConsistent(used_line_ints, line_int_offsets)
       /\ TableConsistent(used_line_ints', line_int_offsets')
       /\ TableExtends(used_line_ints, line_int_offsets,
                       used_line_ints', line_int_offsets')
       /\ TableConsistent(used_point_ints, point_int_offsets)
       /\ TableConsistent(used_point_ints', point_int_offsets')
       /\ TableExtends(used_point_ints, point_int_offsets,
                       used_point_ints', point_int_offsets')]_vars

\* the tally pass is over, a line weight was interned twice and both tables
\* hold several values; the point table was extended by two edges
C4_Witness ==
    /\ pc = "lines"
    /\ Len(LineWeightsOf(edges)) > Len(used_line_ints)
    /\ Len(used_line_ints) >= 2
    /\ Len(used_point_ints) >= 3
    /\ Len(all_turn_data) = 2
    /\ all_turn_data[1] # <<>>
    /\ all_turn_data[2] # <<>>

(* C5: the values of the finished "speeds" layer are, in order, the uint64 *)
(* values 0..127 at the indices 0..127, true at 128, false at 129, the     *)
(* names of the datasources 0..max_datasource_id from index 130, and from  *)
(* index 130 + max_datasource_id + 1 one duration (weight / 10) per        *)
(* distinct line weight in first-seen order; nothing else.                 *)
C5_SpeedsValuesLayout ==
    pc = "done" =>
        LET values == layers[1].values
            durations == FirstSeen(LineWeightsOf(edges), {})
        IN  /\ Len(values) = 130 + (max_datasource_id + 1) + Len(durations)
            /\ \A n \in 0..127 :
                   values[n + 1] = [type |-> "uint64", num |-> n, den |-> 1, str |-> ""]
            /\ values[128 + 1] = [type |-> "bool", num |-> 1, den |-> 1, str |-> ""]
            /\ values[129 + 1] = [type |-> "bool", num |-> 0, den |-> 1, str |-> ""]
            /\ \A n \in 0..max_datasource_id :
                   values[130 + n + 1] =
                       [type |-> "string", num |-> 0, den |-> 1,
                        str |-> datasource_names[n + 1]]
            /\ \A n \in 1..Len(durations) :
                   values[130 + max_datasource_id + 1 + n] =
                       [type |-> "double", num |-> durations[n], den |-> 10, str |-> ""]

\* a finished tile with several datasource names and several durations, one
\* weight having occurred twice
C5_Witness ==
    /\ pc = "done"
    /\ max_datasource_id >= 2
    /\ Len(used_line_ints) >= 2
    /\ Len(LineWeightsOf(edges)) > Len(used_line_ints)

(* C6: once the values of "speeds" are written, max_datasource_id is the   *)
(* largest datasource id of the forward and reverse directions (those with *)
(* a geometry id) of all edges, 0 without any, and the values hold exactly *)
(* max_datasource_id + 1 datasource names.                                 *)
C6_MaxDatasourceAndNames ==
    pc \in {"speeds_written", "points", "done"} =>
        /\ max_datasource_id = MaxOf(DatasourcesOf(edges))
        /\ Cardinality({k \in 1..Len(layers[1].values) :
                            layers[1].values[k].type = "string"})
               = max_datasource_id + 1

\* the values are written and the largest datasource id is that of a reverse
\* direction, above every forward one
C6_Witness ==
    /\ pc = "speeds_written"
    /\ Len(edges) = 2
    /\ max_datasource_id = 2
    /\ \A k \in 1..Len(edges) :
           edges[k].forward_packed_geometry_id # SPECIAL_EDGEID =>
               geometry_list[edges[k].forward_packed_geometry_id]
                   .datasources[edges[k].fwd_segment_position + 1] < 2

(* C7: a finished request has written exactly two layers, "speeds" and     *)
(* then "turns", each with version 2, extent 4096 and its keys, also for   *)
(* an empty edge list and for a layer without features.                    *)
C7_TwoLayersAlways ==
    pc = "done" =>
        /\ status = "Ok"
        /\ Len(layers) = 2
        /\ layers[1].name = "speeds"
        /\ layers[2].name = "turns"
        /\ \A l \in 1..2 : layers[l].version = 2 /\ layers[l].extent = 4096
        /\ layers[1].keys = <<"speed", "is_small", "datasource", "duration">>
        /\ layers[2].keys = <<"bearing_in", "bearing_out", "weight">>

\* a finished request over edges none of which yields a feature
C7_Witness ==
    /\ pc = "done"
    /\ Len(edges) >= 1
    /\ layers[1].features = <<>>
    /\ layers[2].features = <<>>

-----------------------------------------------------------------------------
(* Turn records, read off the facade *)

\* the edge ends its node-based edge at an intersection
IntersectionTerminal(edge) ==
    /\ edge.forward_packed_geometry_id # SPECIAL_EDGEID
    /\ edge.fwd_segment_position + 1 =
           Len(geometry_list[edge.forward_packed_geometry_id].nodes)

\* the retained shortcuts of an edge in the order the tally pass meets them
RetainedShortcuts(edge) ==
    SelectSeq(GetAdjacentEdgeRange(edge.forward_segment_id.id),
              LAMBDA sc : ShortcutRetained(edge, sc))

\* the pairs of positions (a before b) of retained shortcuts that yield the
\* same next node with different turn weights, b being the last for the node
CollidingShortcuts(edge) ==
    LET kept == RetainedShortcuts(edge)
    IN  {pair \in (1..Len(kept)) \X (1..Len(kept)) :
            /\ pair[1] < pair[2]
            /\ ShortcutNextNode(edge, kept[pair[1]]) = ShortcutNextNode(edge, kept[pair[2]])
            /\ ShortcutTurnWeight(edge, kept[pair[1]]) # ShortcutTurnWeight(edge, kept[pair[2]])
            /\ \A c \in 1..Len(kept) :
                   ShortcutNextNode(edge, kept[c]) = ShortcutNextNode(edge, kept[pair[1]])
                   => c \in {pair[1], pair[2]}}

\* the turn records of edge index that lead to next_node, told by the
\* bearing their out-angle offset refers to
RecordsToward(index, next_node) ==
    {k \in 1..Len(all_turn_data[index]) :
        used_point_ints[all_turn_data[index][k].out_angle_offset + 1]
            = AngleOut(edges[index], next_node)}

\* the turn weight a record refers to
RecordWeight(index, k) ==
    used_point_ints[all_turn_data[index][k].weight_offset + 1]

(* C8, as claimed: when two retained shortcuts of a tallied intersection-  *)
(* terminal edge yield the same next node with different turn weights, the *)
(* one TurnRecord of that node refers to the weight of the shortcut        *)
(* processed later.                                                        *)
C8_LaterShortcutWins ==
    \A index \in 1..Len(all_turn_data) :
        IntersectionTerminal(edges[index]) =>
            \A pair \in CollidingShortcuts(edges[index]) :
                LET kept == RetainedShortcuts(edges[index])
                    node == ShortcutNextNode(edges[index], kept[pair[2]])
                IN  /\ Cardinality(RecordsToward(index, node)) = 1
                    /\ \A k \in RecordsToward(index, node) :
                           RecordWeight(index, k) =
                               ShortcutTurnWeight(edges[index], kept[pair[2]])

(* C8, amended: in that case the one TurnRecord of that node refers to the *)
(* weight of the shortcut processed first (emplace keeps the first entry); *)
(* the record does not refer to the later weight.                          *)
C8_FirstShortcutWins ==
    \A index \in 1..Len(all_turn_data) :
        IntersectionTerminal(edges[index]) =>
            \A pair \in CollidingShortcuts(edges[index]) :
                LET kept == RetainedShortcuts(edges[index])
                    node == ShortcutNextNode(edges[index], kept[pair[1]])
                IN  /\ Cardinality(RecordsToward(index, node)) = 1
                    /\ \A k \in RecordsToward(index, node) :
                           /\ RecordWeight(index, k) =
                                  ShortcutTurnWeight(edges[index], kept[pair[1]])
                           /\ RecordWeight(index, k) #
                                  ShortcutTurnWeight(edges[index], kept[pair[2]])

\* an edge with two such shortcuts has been tallied
C8_Witness ==
    \E index \in 1..Len(all_turn_data) :
        /\ IntersectionTerminal(edges[index])
        /\ CollidingShortcuts(edges[index]) # {}
        /\ Len(all_turn_data[index]) = 2

(* C9: in the finished tile the number of "turns" features of an edge is   *)
(* the number of its turn records if its forward segment is the last of    *)
(* its node-based edge, it has a turn record and the projected point of    *)
(* node v is strictly inside the padded clip box, and 0 otherwise; all     *)
(* point features of one edge have the same geometry.                      *)
C9_TurnFeaturesPerEdge ==
    pc = "done" =>
        \A index \in 1..Len(edges) :
            LET point == coordinatesToTilePoint(GetCoordinateOfNode(edges[index].v),
                                                tile_bbox)
                inside == /\ -128 < point.x /\ point.x < 4096 + 128
                          /\ -128 < point.y /\ point.y < 4096 + 128
                mine == FeaturesOf(2, index, "forward")
            IN  /\ Cardinality(mine) =
                       IF /\ IntersectionTerminal(edges[index])
                          /\ Len(all_turn_data[index]) >= 1
                          /\ inside
                       THEN Len(all_turn_data[index]) ELSE 0
                /\ \A k1, k2 \in mine :
                       layers[2].features[k1].geometry = layers[2].features[k2].geometry

\* a finished tile: one edge with two turn records and two point features,
\* one edge with a turn record whose point lies on the border of the box
C9_Witness ==
    /\ pc = "done"
    /\ \E index \in 1..Len(edges) :
           /\ Len(all_turn_data[index]) = 2
           /\ Cardinality(FeaturesOf(2, index, "forward")) = 2
    /\ \E index \in 1..Len(edges) :
           /\ Len(all_turn_data[index]) >= 1
           /\ coordinatesToTilePoint(GetCoordinateOfNode(edges[index].v), tile_bbox).x = -128
           /\ FeaturesOf(2, index, "forward") = {}

(* C10: a request over a facade with an array shorter than an edge's       *)
(* segment position does not return success: it never ends with Status::Ok *)
(* and a tile.                                                             *)
C10_ShortArrayIsNotOk ==
    (\E index \in 1..Len(edges) : ReadsPastEnd(edges[index])) => status # "Ok"

-----------------------------------------------------------------------------
(* C11: a request whose x or y is out of range for its z is rejected with  *)
(* an InvalidArgument error before any work: once it has left the entry of *)
(* HandleRequest its status is InvalidArgument, no edge was fetched from   *)
(* the facade and no layer was written.  (HandleRequest has no such path.) *)
C11_InvalidRequestRejected ==
    (~IsValid(parameters) /\ pc # "entry") =>
        /\ status = "InvalidArgument"
        /\ edges = <<>>
        /\ layers = <<>>

-----------------------------------------------------------------------------
(* The value index a feature pairs with key index `key` (its k-th pair) *)
ValueIndexOf(feature, key) == feature.tags[2 * key + 2]

\* the features of the "speeds" layer written so far
SpeedsFeatures == IF Len(layers) >= 1 THEN layers[1].features ELSE <<>>

(* C12, as claimed: in every "speeds" feature the value index paired with  *)
(* the "is_small" key is 128 when the edge is not tiny and 129 when it is  *)
(* tiny.                                                                   *)
C12_IsSmallIndexAsClaimed ==
    \A k \in 1..Len(SpeedsFeatures) :
        LET feature == SpeedsFeatures[k] IN
        /\ feature.tags[3] = 1
        /\ ValueIndexOf(feature, 1) =
               IF edges[feature.edge].is_tiny THEN 129 ELSE 128

(* C12, as the code has it: the value index paired with the "is_small" key *)
(* (key index 1) is 128 when the edge is tiny and 129 when it is not, and  *)
(* in the finished layer that index resolves to the boolean is_tiny (true  *)
(* at 128, false at 129).                                                  *)
C12_IsSmallIndex ==
    \A k \in 1..Len(SpeedsFeatures) :
        LET feature == SpeedsFeatures[k] IN
        /\ feature.tags[3] = 1
        /\ ValueIndexOf(feature, 1) =
               IF edges[feature.edge].is_tiny THEN 128 ELSE 129
        /\ layers[1].keys # <<>> =>
               /\ layers[1].keys[feature.tags[3] + 1] = "is_small"
               /\ layers[1].values[ValueIndexOf(feature, 1) + 1] =
                      BoolValue(edges[feature.edge].is_tiny)

\* a finished tile with a feature of a tiny edge and one of an edge that is
\* not tiny
C12_Witness ==
    /\ pc = "done"
    /\ \E k \in 1..Len(SpeedsFeatures) : edges[SpeedsFeatures[k].edge].is_tiny
    /\ \E k \in 1..Len(SpeedsFeatures) : ~edges[SpeedsFeatures[k].edge].is_tiny

-----------------------------------------------------------------------------
(* C13: within each layer the feature ids are exactly 1, 2, ..., n in      *)
(* emission order, n being the number of features of the layer: each layer *)
(* starts at 1, and skipped edges or directions leave no gap.  While a     *)
(* layer is being written the id counter is the next id, n + 1.            *)
C13_FeatureIdsAreDense ==
    /\ \A l \in 1..Len(layers) :
          \A k \in 1..Len(layers[l].features) : layers[l].features[k].id = k
    /\ pc = "lines" => id = Len(layers[1].features) + 1
    /\ pc \in {"points", "done"} => id = Len(layers[2].features) + 1

\* a finished tile where the first edge has no "speeds" feature and the
\* second has one, where one edge has its turn features after an edge
\* without any, and both layers hold two features or more
C13_Witness ==
    /\ pc = "done"
    /\ Len(edges) = 2
    /\ FeaturesOf(1, 1, "forward") \cup FeaturesOf(1, 1, "reverse") = {}
    /\ Len(layers[1].features) >= 2
    /\ FeaturesOf(2, 1, "forward") = {}
    /\ Len(layers[2].features) >= 2

-----------------------------------------------------------------------------
\* the distinct next nodes of an edge: the first node of the second edge of
\* every retained shortcut, for an intersection-terminal edge
ExpectedNextNodes(edge) ==
    IF IntersectionTerminal(edge)
    THEN LET kept == RetainedShortcuts(edge)
         IN  {ShortcutNextNode(edge, kept[c]) : c \in 1..Len(kept)}
    ELSE {}

\* all_turn_data holds one list per tallied edge, at the edge's index, with
\* one record per distinct next node
TurnListsMatchEdges ==
    /\ Len(all_turn_data) = IF pc = "tally" THEN i ELSE Len(edges)
    /\ \A index \in 1..Len(all_turn_data) :
          LET nodes == ExpectedNextNodes(edges[index]) IN
          /\ Len(all_turn_data[index]) = Cardinality(nodes)
          /\ \A node \in nodes : RecordsToward(index, node) # {}
          /\ \A k \in 1..Len(all_turn_data[index]) :
                \E node \in nodes : k \in RecordsToward(index, node)

\* a step keeps the lists already stored, and a tally step that stores an
\* empty list leaves the turn value table as it was
TurnTallyStep ==
    /\ SubSeq(all_turn_data', 1, Len(all_turn_data)) = all_turn_data
    /\ (pc = "tally" /\ i' = i + 1 /\ all_turn_data'[i'] = <<>>) =>
          /\ used_point_ints' = used_point_ints
          /\ point_int_offsets' = point_int_offsets

(* C14: after the tally pass all_turn_data has exactly one list per edge,  *)
(* at the index of the edge; the list of an edge has exactly one record    *)
(* per distinct next node among the shortcuts adjacent to its forward      *)
(* segment that are forward-enabled and unpack to two edges or more; it is *)
(* empty when the forward geometry is absent, the forward segment is not   *)
(* the last of its node-based edge or no such shortcut exists, and then    *)
(* nothing, not even angle_in, is interned into the turn value table.      *)
C14_OneTurnListPerEdge ==
    []TurnListsMatchEdges /\ [][TurnTallyStep]_vars

\* the tally pass is over: one edge has two records or more, the other is
\* intersection-terminal without a retained shortcut and has none
C14_Witness ==
    /\ pc = "lines"
    /\ Len(edges) = 2
    /\ Len(all_turn_data[1]) >= 2
    /\ IntersectionTerminal(edges[2])
    /\ GetAdjacentEdgeRange(edges[2].forward_segment_id.id) # <<>>
    /\ all_turn_data[2] = <<>>
    /\ used_point_ints # <<>>

-----------------------------------------------------------------------------
(* Line geometries, as the claims state them and as a reader decodes them *)

\* the inverse of the zigzag encoding
decode_zigzag32(v) == IF v % 2 = 0 THEN v \div 2 ELSE -((v + 1) \div 2)

\* the stream stated for a line of two points or more and a cursor
StatedStream(line, cursor) ==
    <<9, encode_zigzag32(line[1].x - cursor.x), encode_zigzag32(line[1].y - cursor.y),
      (Len(line) - 1) * 8 + 2>>
    \o [k \in 1..(2 * (Len(line) - 1)) |->
          LET point    == line[(k + 1) \div 2 + 1]
              previous == line[(k + 1) \div 2]
          IN  IF k % 2 = 1 THEN encode_zigzag32(point.x - previous.x)
              ELSE encode_zigzag32(point.y - previous.y)]

\* the points a sequence of zigzag-encoded (dx, dy) pairs leads through
RECURSIVE SumDeltas(_, _)
SumDeltas(pairs, cursor) ==
    IF Len(pairs) < 2 THEN <<>>
    ELSE LET point == [x |-> cursor.x + decode_zigzag32(pairs[1]),
                       y |-> cursor.y + decode_zigzag32(pairs[2])]
         IN  <<point>> \o SumDeltas(SubSeq(pairs, 3, Len(pairs)), point)

\* the points of a line geometry: MoveTo with one pair, LineTo with the rest
DecodeLine(geometry, cursor) ==
    IF Len(geometry) < 4 THEN <<>>
    ELSE LET first == SumDeltas(SubSeq(geometry, 2, 3), cursor)
         IN  first \o SumDeltas(SubSeq(geometry, 5, Len(geometry)), first[1])

\* the clipped line of a direction of an edge
DirectionLine(edge, direction) ==
    IF direction = "forward"
    THEN coordinatesToTileLine(GetCoordinateOfNode(edge.u),
                               GetCoordinateOfNode(edge.v), tile_bbox)
    ELSE coordinatesToTileLine(GetCoordinateOfNode(edge.v),
                               GetCoordinateOfNode(edge.u), tile_bbox)

(* C15: for a line of n >= 2 points encodeLinestring writes 9, the zigzag  *)
(* deltas of the first point from the cursor, ((n-1) << 3) | 2, then the   *)
(* zigzag deltas of each later point from the point before it: 2n+2        *)
(* elements, the cursor left at the last point, true returned; for fewer   *)
(* than 2 points it writes nothing and returns false.  Every "speeds"      *)
(* feature is encoded from the cursor (0,0): summing the decoded deltas of *)
(* its geometry from (0,0) gives the points of its own clipped line,       *)
(* whatever features were written before it.                               *)
C15_LinestringEncoding ==
    /\ pc = "returned" =>
          LET line == linestring.line
              n    == Len(line)
          IN  IF n >= 2
              THEN /\ linestring.geometry = StatedStream(line, linestring.start)
                   /\ Len(linestring.geometry) = 2 * n + 2
                   /\ linestring.cursor = line[n]
                   /\ linestring.returned = "true"
                   /\ DecodeLine(linestring.geometry, linestring.start) = line
              ELSE /\ linestring.geometry = <<>>
                   /\ linestring.returned = "false"
    /\ \A k \in 1..Len(SpeedsFeatures) :
          LET feature == SpeedsFeatures[k]
              line    == DirectionLine(edges[feature.edge], feature.direction)
          IN  /\ Len(line) >= 2
              /\ feature.geometry = StatedStream(line, [x |-> 0, y |-> 0])
              /\ DecodeLine(feature.geometry, [x |-> 0, y |-> 0]) = line

\* a line of three points was encoded from a cursor off the origin, with a
\* step towards smaller x
C15_Witness ==
    /\ pc = "returned"
    /\ Len(linestring.line) = 3
    /\ linestring.start # [x |-> 0, y |-> 0]
    /\ linestring.line[3].x < linestring.line[2].x
    /\ linestring.returned = "true"

-----------------------------------------------------------------------------
(* The request run on another edge list: the tally pass and the two        *)
(* emission passes applied to `es` from the empty tables, every unordered  *)
(* map enumerated in some fixed order.                                     *)

\* the one value an in-range read yields
TheValue(S) == CHOOSE v \in S : TRUE

\* the tables after the tally iteration of one edge
TallyOne(edge, t) ==
    LET line1 == IF ForwardPresent(edge)
                 THEN use_line_value(t.line_ints, t.line_offsets,
                                     TheValue(ForwardWeightRead(edge)))
                 ELSE [ints |-> t.line_ints, offsets |-> t.line_offsets]
        line2 == IF ReversePresent(edge)
                 THEN use_line_value(line1.ints, line1.offsets,
                                     TheValue(ReverseWeightRead(edge)))
                 ELSE line1
        turns == ReconstructTurns(edge, TheValue(Perms(DOMAIN CNodes(edge))),
                                  t.point_ints, t.point_offsets)
    IN  [line_ints     |-> line2.ints,
         line_offsets  |-> line2.offsets,
         point_ints    |-> turns.ints,
         point_offsets |-> turns.offsets,
         maxds         |-> UpdateMaxDatasource(t.maxds,
                               TheValue(ForwardDatasourceRead(edge)),
                               TheValue(ReverseDatasourceRead(edge))),
         turn_data     |-> Append(t.turn_data, turns.data)]

\* the tables after the tally pass over es
RECURSIVE TallyAll(_)
TallyAll(es) ==
    IF es = <<>>
    THEN [line_ints |-> <<>>, line_offsets |-> <<>>, point_ints |-> <<>>,
          point_offsets |-> <<>>, maxds |-> 0, turn_data |-> <<>>]
    ELSE TallyOne(es[Len(es)], TallyAll(SubSeq(es, 1, Len(es) - 1)))

\* the "speeds" features that run writes for the edge at index k of es
LineFeaturesOn(es, t, k) ==
    LineFeatures(es[k], k, t.line_offsets, 1, t.maxds,
                 TheValue(ForwardWeightRead(es[k])),
                 TheValue(ForwardDatasourceRead(es[k])),
                 TheValue(ReverseWeightRead(es[k])),
                 TheValue(ReverseDatasourceRead(es[k]))).features

\* the "turns" features that run writes for the edge at index k of es
PointFeaturesOn(es, t, k) == PointFeatures(es[k], k, t.turn_data[k], 1)

\* a feature without its id and the index of its edge
Unnumbered(feature) ==
    [type |-> feature.type, direction |-> feature.direction,
     tags |-> feature.tags, geometry |-> feature.geometry]

\* a feature with every value index replaced by the value it refers to
Resolved(feature, values) ==
    [type |-> feature.type, direction |-> feature.direction,
     geometry |-> feature.geometry,
     attributes |-> [k \in 1..(Len(feature.tags) \div 2) |->
                        <<feature.tags[2 * k - 1], values[feature.tags[2 * k] + 1]>>]]

\* the features of layer l written for the edge at `index`, in order
FeaturesAt(l, index) ==
    SelectSeq(layers[l].features, LAMBDA feature : feature.edge = index)

\* seq without its element at index d
Remove(seq, d) ==
    [k \in 1..(Len(seq) - 1) |-> IF k < d THEN seq[k] ELSE seq[k + 1]]

\* the image of a sequence under an operator, as a sequence and as a set
MapSeq(seq, Op(_)) == [k \in 1..Len(seq) |-> Op(seq[k])]

\* the edge at `index` has a degenerate outcome: a direction with weight and
\* enabled flag whose line clips to fewer than two points, turn records
\* whose point is outside the clip box, or an intersection without a turn
DegenerateEdge(index) ==
    LET edge == edges[index] IN
    \/ \E direction \in Directions :
          /\ DirectionWeight(edge, direction) # 0
          /\ DirectionEnabled(edge, direction)
          /\ ~DirectionVisible(edge, direction)
    \/ /\ all_turn_data[index] # <<>>
       /\ ~within(coordinatesToTilePoint(GetCoordinateOfNode(edge.v), tile_bbox),
                  clip_box)
    \/ /\ IntersectionTerminal(edge)
       /\ all_turn_data[index] = <<>>

\* the features of the other edges are, without their ids, those of the run
\* on the list without the edge at d
SameFeaturesWithout(d) ==
    LET es == Remove(edges, d)
        t  == TallyAll(es)
    IN  \A j \in 1..Len(es) :
          LET index == IF j < d THEN j ELSE j + 1 IN
          /\ MapSeq(FeaturesAt(1, index), Unnumbered)
                = MapSeq(LineFeaturesOn(es, t, j), Unnumbered)
          /\ Len(FeaturesAt(2, index)) = Len(PointFeaturesOn(es, t, j))
          /\ {Unnumbered(feature) : feature \in Range(FeaturesAt(2, index))}
                = {Unnumbered(feature) : feature \in Range(PointFeaturesOn(es, t, j))}

\* the features of the other edges have the geometry and the attribute
\* values of those of the run on the list without the edge at d
SameResolvedFeaturesWithout(d) ==
    LET es == Remove(edges, d)
        t  == TallyAll(es)
        speeds_values == SpeedsValues(t.maxds, t.line_ints)
        turns_values  == TurnsValues(t.point_ints)
    IN  \A j \in 1..Len(es) :
          LET index == IF j < d THEN j ELSE j + 1 IN
          /\ [k \in 1..Len(FeaturesAt(1, index)) |->
                 Resolved(FeaturesAt(1, index)[k], layers[1].values)]
                = [k \in 1..Len(LineFeaturesOn(es, t, j)) |->
                     Resolved(LineFeaturesOn(es, t, j)[k], speeds_values)]
          /\ Len(FeaturesAt(2, index)) = Len(PointFeaturesOn(es, t, j))
          /\ {Resolved(feature, layers[2].values) :
                 feature \in Range(FeaturesAt(2, index))}
                = {Resolved(feature, turns_values) :
                     feature \in Range(PointFeaturesOn(es, t, j))}

(* C16, as claimed: a degenerate outcome for one edge (a line clipped to   *)
(* fewer than two points, a turn point outside the clip box, no turn at an *)
(* intersection) skips only that feature: the request ends with Status::Ok *)
(* and the features of every other edge and direction are, apart from      *)
(* their ids, those of the request without the degenerate edge.            *)
C16_OtherFeaturesUntouched ==
    /\ status \in {"running", "Ok"}
    /\ pc = "done" =>
          /\ status = "Ok"
          /\ \A d \in 1..Len(edges) : DegenerateEdge(d) => SameFeaturesWithout(d)

(* C16, amended: the request ends with Status::Ok and the features of      *)
(* every other edge and direction have the geometry and, resolved through  *)
(* the values array of their layer, the attribute values of the request    *)
(* without the degenerate edge.  (The value indices themselves may differ: *)
(* the tally pass interns the weights, datasource and turn values of the   *)
(* degenerate edge too.)                                                   *)
C16_OtherFeaturesResolveAlike ==
    /\ status \in {"running", "Ok"}
    /\ pc = "done" =>
          /\ status = "Ok"
          /\ \A d \in 1..Len(edges) :
                DegenerateEdge(d) => SameResolvedFeaturesWithout(d)

\* a finished request with a degenerate first edge whose datasource id is
\* above that of the second edge, which has line and turn features
C16_Witness ==
    /\ pc = "done"
    /\ status = "Ok"
    /\ Len(edges) = 2
    /\ DegenerateEdge(1)
    /\ ~DegenerateEdge(2)
    /\ FeaturesAt(1, 1) = <<>>
    /\ FeaturesAt(1, 2) # <<>>
    /\ FeaturesAt(2, 2) # <<>>
    /\ max_datasource_id > TallyAll(<<edges[2]>>).maxds

-----------------------------------------------------------------------------
\* the value tables and the highest datasource id
tables == <<used_line_ints, line_int_offsets, used_point_ints, point_int_offsets,
            max_datasource_id>>

\* every "speeds" feature written so far has the duration index
\* 130 + max_datasource_id + 1 + the offset of its direction's weight
OneDurationBase ==
    \A k \in 1..Len(SpeedsFeatures) :
        LET feature == SpeedsFeatures[k]
            weight  == DirectionWeight(edges[feature.edge], feature.direction)
        IN  /\ feature.tags[7] = 3
            /\ weight \in DOMAIN line_int_offsets
            /\ ValueIndexOf(feature, 3) =
                   130 + max_datasource_id + 1 + line_int_offsets[weight]

(* C17: from the end of the tally pass until the request returns, the two  *)
(* value tables (used_line_ints with line_int_offsets, used_point_ints     *)
(* with point_int_offsets) and max_datasource_id do not change: no step    *)
(* outside the tally loop, the lookups line_int_offsets[weight] and the    *)
(* repeated max update of the line loop included, adds an entry or changes *)
(* an offset or the maximum, so every "speeds" feature has the same        *)
(* duration base index 130 + max_datasource_id + 1.                        *)
C17_TablesFrozenAfterTally ==
    []OneDurationBase /\ [][pc' # "tally" => UNCHANGED tables]_vars

\* a finished request of two edges: the line loop met a datasource id below
\* the maximum after the edge that set it, and an edge without a forward
\* geometry; several weights and turn values are interned, a feature written
C17_Witness ==
    /\ pc = "done"
    /\ Len(edges) = 2
    /\ max_datasource_id > 0
    /\ TallyAll(<<edges[2]>>).maxds < TallyAll(<<edges[1]>>).maxds
    /\ ~ForwardPresent(edges[2])
    /\ Len(used_line_ints) >= 2
    /\ SpeedsFeatures # <<>>
    /\ used_point_ints # <<>>

-----------------------------------------------------------------------------
\* the datasource id of a direction of an edge as the facade holds it; the
\* reverse direction at the mirrored position
DirectionDatasource(edge, direction) ==
    IF direction = "forward"
    THEN geometry_list[edge.forward_packed_geometry_id]
             .datasources[edge.fwd_segment_position + 1]
    ELSE LET d == geometry_list[edge.reverse_packed_geometry_id].datasources
         IN  d[Len(d) - edge.fwd_segment_position]

\* speed_kmh of a direction of an edge
DirectionSpeed(edge, direction) ==
    SpeedKmh(haversineDistance(GetCoordinateOfNode(edge.u), GetCoordinateOfNode(edge.v)),
             DirectionWeight(edge, direction))

\* the value of the finished "speeds" layer a feature pairs with key `name`
ValueOf(feature, name) ==
    LET key == CHOOSE k \in 0..(Len(layers[1].keys) - 1) : layers[1].keys[k + 1] = name
    IN  layers[1].values[ValueIndexOf(feature, key) + 1]

(* C18: in the finished "speeds" layer the value indices of every feature  *)
(* of an edge direction resolve to the source data of that direction: the  *)
(* "speed" index to min(speed_kmh, 127), the "datasource" index to the     *)
(* name of the direction's datasource id, the "duration" index to the      *)
(* direction's weight divided by 10; the reverse direction takes weight    *)
(* and datasource at the mirrored position size - segment_position - 1.    *)
C18_ValuesResolveToSourceData ==
    (Len(layers) >= 1 /\ layers[1].values # <<>>) =>
        \A k \in 1..Len(SpeedsFeatures) :
            LET feature   == SpeedsFeatures[k]
                edge      == edges[feature.edge]
                direction == feature.direction
            IN  /\ ValueOf(feature, "speed") =
                       UInt64Value(Min(DirectionSpeed(edge, direction), 127))
                /\ ValueOf(feature, "datasource") =
                       StringValue(GetDatasourceName(DirectionDatasource(edge, direction)))
                /\ ValueOf(feature, "duration") =
                       [type |-> "double", num |-> DirectionWeight(edge, direction),
                        den |-> 10, str |-> ""]

\* a finished tile with both features of a segment that is not the first of
\* its geometry, its directions differing in weight and datasource, and a
\* feature whose speed is capped
C18_Witness ==
    /\ pc = "done"
    /\ \E index \in 1..Len(edges) :
          /\ edges[index].fwd_segment_position > 0
          /\ FeaturesOf(1, index, "forward") # {}
          /\ FeaturesOf(1, index, "reverse") # {}
          /\ DirectionWeight(edges[index], "forward")
                # DirectionWeight(edges[index], "reverse")
          /\ DirectionDatasource(edges[index], "forward")
                # DirectionDatasource(edges[index], "reverse")
    /\ \E k \in 1..Len(SpeedsFeatures) :
          DirectionSpeed(edges[SpeedsFeatures[k].edge], SpeedsFeatures[k].direction) > 127

=============================================================================
